---- MODULE Spec2Model ----
(***************************************************************************)
(* The document store of library-docs (src/db.py) and its callers           *)
(* (src/scripts/index.py, src/scripts/list.py), statement by statement.     *)
(*                                                                          *)
(* The database is SQLite reached through Python's sqlite3 module with its  *)
(* default transaction handling: the first INSERT/UPDATE/DELETE of a        *)
(* connection that has no transaction open begins one and takes the         *)
(* database's single write lock; the connection then works on its own       *)
(* copy of the tables until conn.commit() publishes it; other connections   *)
(* read the committed tables only.  conn.close() drops an open transaction. *)
(* Row ids are INTEGER PRIMARY KEY without AUTOINCREMENT: max(id) + 1.      *)
(* The indexed_at timestamps and the url column are not modelled: nothing   *)
(* in the store reads them back.                                            *)
(***************************************************************************)
EXTENDS Integers, FiniteSets, Sequences, Bags, TLC

\* ------------------------------------------------------------------ bounds
\* Calls the callers make, and files the batch runs read, in one behaviour.
\* Every row id is handed out by one of them, so this bounds the ids as well.
MaxCalls == 2

\* ------------------------------------------------------------------ inputs
\* Text is kept in pieces: a content is the sequence of its lines, a path or
\* a title the sequence of the pieces it is put together from.
Conns == {1, 2}
Names == {"acme", "beta"}
Paths == {<<"a.md">>, <<"b.md">>}
Empty == <<>>
Contents == {Empty, <<"x">>, <<"y">>}
Titles == {<<"T">>}
LibIds == {1, 2}

Max(S) == CHOOSE m \in S : \A n \in S : n <= m

\* ------------------------------------------------------------------ tables
NoTx == [open |-> FALSE]
NoRow == [id |-> 0]

VARIABLES
    libraries,      \* committed rows of table libraries: [id, name, doc_count]
    documents,      \* committed rows of table documents: [id, library_id, path, title, content]
    documents_fts,  \* committed full-text index: a bag of [rowid, title, content, path]
    tx,             \* per connection: the open transaction's copy of the tables, or NoTx
    pc,             \* per connection: the statement its current call executes next
    call,           \* per connection: the current call's arguments and locals
    last,           \* per connection: the outcome of its last finished call
    lastUpsert,     \* the arguments of the upsert_document that returned last,
                    \* while no other call has run since; else NoArgs
    calls,          \* calls started and files read so far
    batch           \* per connection: the batch_index run it is in, or NoBatch

vars == <<libraries, documents, documents_fts, tx, pc, call, last, lastUpsert, calls,
          batch>>

Committed ==
    [open |-> TRUE, libraries |-> libraries, documents |-> documents,
     documents_fts |-> documents_fts]

\* What connection c's statements read: its open transaction, else the
\* committed tables.
View(c) == IF tx[c].open THEN tx[c] ELSE Committed

\* The write lock is held by another connection.
Busy(c) == \E d \in Conns \ {c} : tx[d].open

\* sqlite rowid of a new row: max(rowid) + 1, or 1 in an empty table.
NextRowid(rows) == IF rows = {} THEN 1 ELSE Max({r.id : r \in rows}) + 1

FtsEntry(d) ==
    [rowid |-> d.id, title |-> d.title, content |-> d.content, path |-> d.path]

\* Trigger documents_ai.
documents_ai(fts, new) == fts (+) SetToBag({FtsEntry(new)})

\* Trigger documents_ad, once per deleted row.
documents_ad_noop(fts, old) == fts
documents_ad(fts, old) == fts (-) SetToBag({FtsEntry(o) : o \in old})

\* DELETE FROM documents WHERE <rows>, with its trigger.
DeleteDocuments(db, rows) ==
    [db EXCEPT !.documents = db.documents \ rows,
               !.documents_fts = documents_ad(db.documents_fts, rows)]

\* The UNIQUE(library_id, path) constraint of table documents.
UniqueViolated(db, library_id, path) ==
    \E d \in db.documents : d.library_id = library_id /\ d.path = path

\* INSERT INTO documents (...) VALUES (...), with its trigger.
InsertDocument(db, library_id, path, content, title) ==
    LET new == [id |-> NextRowid(db.documents), library_id |-> library_id,
                path |-> path, title |-> title, content |-> content]
    IN [db EXCEPT !.documents = db.documents \cup {new},
                  !.documents_fts = documents_ai(db.documents_fts, new)]

\* The rows of a library: WHERE library_id = ?
Owned(docs, library_id) == {d \in docs : d.library_id = library_id}

\* SELECT ... WHERE library_id = ? AND path = ?: the row at the key, if any.
RowAt(db, library_id, path) ==
    IF \E d \in db.documents : d.library_id = library_id /\ d.path = path
        THEN CHOOSE d \in db.documents : d.library_id = library_id /\ d.path = path
        ELSE NoRow

\* The rows upsert_document's DELETE removes.
UpsertDeleteRows_none(db, library_id, path) == {}
UpsertDeleteRows(db, library_id, path) ==
    {d \in db.documents : d.library_id = library_id /\ d.path = path}

\* UPDATE libraries SET doc_count = (SELECT COUNT(*) ...) WHERE id = ?
UpdateDocCount_increment(db, library_id) ==
    [db EXCEPT !.libraries =
        {IF l.id = library_id THEN [l EXCEPT !.doc_count = @ + 1] ELSE l
            : l \in db.libraries}]
UpdateDocCount(db, library_id) ==
    [db EXCEPT !.libraries =
        {IF l.id = library_id
            THEN [l EXCEPT !.doc_count =
                    Cardinality(Owned(db.documents, library_id))]
            ELSE l : l \in db.libraries}]

\* DELETE FROM libraries WHERE id = ?
DeleteLibrary_none(db, library_id) == db
DeleteLibrary(db, library_id) ==
    [db EXCEPT !.libraries = {l \in db.libraries : l.id # library_id}]

\* INSERT OR IGNORE INTO libraries (name) VALUES (?): name is UNIQUE,
\* doc_count DEFAULT 0.
InsertOrIgnoreLibrary_always(db, name) ==
    [db EXCEPT !.libraries = db.libraries \cup
        {[id |-> NextRowid(db.libraries), name |-> name, doc_count |-> 0]}]
InsertOrIgnoreLibrary(db, name) ==
    IF \E l \in db.libraries : l.name = name
        THEN db
        ELSE [db EXCEPT !.libraries = db.libraries \cup
                {[id |-> NextRowid(db.libraries), name |-> name, doc_count |-> 0]}]

\* SELECT id FROM libraries WHERE name = ?  (fetchone)
SelectLibrary(db, name) ==
    IF \E l \in db.libraries : l.name = name
        THEN CHOOSE l \in db.libraries : l.name = name
        ELSE NoRow

\* ------------------------------------------------------------------ calls
\* Beside its arguments a call carries what the claims below ask about it.
\* again: the call repeats, with nothing in between, the upsert_document that
\* returned last.  conc: another connection was inside the same operation on
\* the same key while this one was.  prev: the row the call's first DELETE
\* found at (library_id, path), or one of the library's rows.
NoCall == [op |-> "none", name |-> "", library_id |-> 0, path |-> <<>>,
           content |-> <<>>, title |-> <<>>, url |-> <<>>, query |-> <<>>,
           limit |-> 0, prev |-> NoRow, again |-> FALSE, conc |-> FALSE]
NoLast == [op |-> "none", res |-> "none", err |-> "", val |-> 0, rows |-> <<>>,
           name |-> "",
           prev |-> NoRow, again |-> FALSE, conc |-> FALSE]

Args(k) == [library_id |-> k.library_id, path |-> k.path, content |-> k.content,
            title |-> k.title]
NoArgs == Args(NoCall)

\* A run of batch_index: the library_id obtained, the file at hand (its path,
\* the content read, and whether the library owned no document when it was
\* read) and the chunks of it still to store.
NoFile == [path |-> <<>>, content |-> <<>>, fresh |-> FALSE]
NoBatch == [active |-> FALSE, library_id |-> 0, file |-> NoFile, chunks |-> <<>>]

\* ------------------------------------------------------------------ text
\* src/scripts/index.py works on the characters of a document; the model
\* works on its lines, drawn from the lines below.  Fill stands for a line
\* of FillLen characters none of which is '#', '-' or white space.
CHUNK_THRESHOLD == 8000
FillLen == 8000
Fill == "x...x"
Lines == {"", "x", "y", "---", "title: F", "# T", "## A", "## B", Fill}

\* A line that with a heading and a line of one character above it makes a
\* document of exactly CHUNK_THRESHOLD characters.
Pad == "x..x"
PadLen == CHUNK_THRESHOLD - 7

\* len() of one line.
LineLen(line) ==
    CASE line = "" -> 0
      [] line \in {"x", "y"} -> 1
      [] line \in {"---", "# T"} -> 3
      [] line \in {"## A", "## B"} -> 4
      [] line = "title: F" -> 8
      [] line = Fill -> FillLen
      [] line = Pad -> PadLen

RECURSIVE SumLen(_)
SumLen(lines) == IF lines = <<>> THEN 0 ELSE LineLen(Head(lines)) + SumLen(Tail(lines))

\* len(content): the lines and the newlines between them.
StrLen(content) == IF content = <<>> THEN 0 ELSE SumLen(content) + Len(content) - 1

\* A line of white space only.
IsBlank(line) == line = ""

\* str.strip() of a block of lines: the blank lines at both ends go.
RECURSIVE LStrip(_)
LStrip(lines) ==
    IF lines # <<>> /\ IsBlank(Head(lines)) THEN LStrip(Tail(lines)) ELSE lines

RECURSIVE RStrip(_)
RStrip(lines) ==
    IF lines # <<>> /\ IsBlank(lines[Len(lines)])
        THEN RStrip(SubSeq(lines, 1, Len(lines) - 1)) ELSE lines

Strip(lines) == RStrip(LStrip(lines))

\* The least index from `from` on of a line in `set`, or 0.
FirstIn(lines, set, from) ==
    IF \E i \in from..Len(lines) : lines[i] \in set
        THEN CHOOSE i \in from..Len(lines) :
                /\ lines[i] \in set
                /\ \A j \in from..(i - 1) : lines[j] \notin set
        ELSE 0

\* Lines matching ^#\s+(.+)$, and group(1).strip().
H1Lines == {"# T"}
H1Text(line) == "T"

\* Lines matching ^title:\s*["']?(.+?)["']?\s*$, and group(1).strip().
FmTitleLines == {"title: F"}
FmTitleText(line) == "F"

\* Lines matching ^(## .+)$, and heading.replace('## ', '').strip().
H2Lines == {"## A", "## B"}
SectionTitle(heading) == IF heading = "## A" THEN "A" ELSE "B"

\* Lines holding '---'.
DashLines == {"---"}

\* path.split('/')[-1].replace('.md', '')...replace('-', ' ').title()
FileTitle(path) ==
    CASE path = <<"a.md">> -> "A"
      [] path = <<"b.md">> -> "B"
      [] OTHER -> "Other"

\* extract_title(content, path)
extract_title(content, path) ==
    IF FirstIn(content, H1Lines, 1) # 0
        THEN <<H1Text(content[FirstIn(content, H1Lines, 1)])>>
    ELSE IF /\ content # <<>> /\ content[1] \in DashLines
            /\ FirstIn(content, FmTitleLines, 1) # 0
        THEN <<FmTitleText(content[FirstIn(content, FmTitleLines, 1)])>>
    ELSE <<FileTitle(path)>>

\* re.sub(r'\s+', '-', re.sub(r'[^a-z0-9\s-]', '', section_title.lower()))
Anchor(section_title) == IF section_title = "A" THEN "a" ELSE "b"

NoUrl == <<>>

WholeDocument(content, path, base_url) ==
    [path |-> path, content |-> content, title |-> extract_title(content, path),
     url |-> base_url]

\* The heading + content pairs of re.split(r'^(## .+)$', ...) from line i on,
\* as chunks; sections of no content are skipped.
RECURSIVE SectionChunks(_, _, _, _, _)
SectionChunks(doc, i, path, doc_title, base_url) ==
    IF i = 0 \/ i > Len(doc) THEN <<>>
    ELSE LET next == FirstIn(doc, H2Lines, i + 1)
             stop == IF next = 0 THEN Len(doc) ELSE next - 1
             heading == doc[i]
             section_content == Strip(SubSeq(doc, i + 1, stop))
             section_title == SectionTitle(heading)
             chunk == [path |-> path \o <<"##", section_title>>,
                       content |-> <<heading, "">> \o section_content,
                       title |-> doc_title \o <<">", section_title>>,
                       url |-> IF base_url # NoUrl
                                 THEN base_url \o <<"#", Anchor(section_title)>>
                                 ELSE base_url]
         IN (IF section_content = <<>> THEN <<>> ELSE <<chunk>>)
            \o SectionChunks(doc, next, path, doc_title, base_url)

\* chunk_document past its first return: the frontmatter, the intro, the
\* sections, and the whole document if that made no chunk.
SplitSections(content, path, base_url) ==
    LET fm_end == IF content[1] \in DashLines THEN FirstIn(content, DashLines, 2) ELSE 0
        frontmatter == SubSeq(content, 1, fm_end)
        doc_content == IF fm_end # 0
                          THEN Strip(SubSeq(content, fm_end + 1, Len(content)))
                          ELSE content
        first == FirstIn(doc_content, H2Lines, 1)
        sections0 == IF first = 0 THEN doc_content ELSE SubSeq(doc_content, 1, first - 1)
        doc_title == extract_title(content, path)
        intro == IF frontmatter # <<>>
                    THEN frontmatter \o <<"">> \o Strip(sections0)
                    ELSE Strip(sections0)
        chunks ==
            (IF Strip(sections0) # <<>>
                THEN <<[path |-> path, content |-> intro, title |-> doc_title,
                        url |-> base_url]>>
                ELSE <<>>)
            \o SectionChunks(doc_content, first, path, doc_title, base_url)
    IN IF chunks = <<>> THEN <<WholeDocument(content, path, base_url)>> ELSE chunks

\* The same with `<=` for `<` in the test of the length.
chunk_document_above(content, path, base_url) ==
    IF StrLen(content) <= CHUNK_THRESHOLD
        THEN <<WholeDocument(content, path, base_url)>>
        ELSE SplitSections(content, path, base_url)

\* chunk_document(content, path, base_url)
chunk_document(content, path, base_url) ==
    IF StrLen(content) < CHUNK_THRESHOLD
        THEN <<WholeDocument(content, path, base_url)>>
        ELSE SplitSections(content, path, base_url)

\* The files a batch is given, and what reading one of them may yield.
Files == {<<"a.md">>, <<"b.md">>}
Indexers == {1}
Readers == {1}
FileContents == {<<"">>, <<"x">>, <<"y">>, <<Fill, "## A", "x">>,
                 <<"## A", Fill, "## B", "x">>, <<"## A", Fill, "## A", "x">>}

\* The database file outlives the processes that use it: a behaviour starts
\* from the tables init_db creates, or from what earlier runs of index.py
\* (get_or_create_library, then upsert_document) left in them.
EmptyDb == [open |-> TRUE, libraries |-> {}, documents |-> {}, documents_fts |-> EmptyBag]

Indexed(db, name, path, content) ==
    LET withLib == InsertOrIgnoreLibrary(db, name)
        library_id == SelectLibrary(withLib, name).id
        cleared == DeleteDocuments(withLib, UpsertDeleteRows(withLib, library_id, path))
    IN UpdateDocCount(InsertDocument(cleared, library_id, path, content, <<"T">>),
                      library_id)

OneDocDb == Indexed(EmptyDb, "acme", <<"a.md">>, <<"x">>)
TwoLibDb == Indexed(OneDocDb, "beta", <<"a.md">>, <<"y">>)
InitialDbs == {EmptyDb, OneDocDb, TwoLibDb}

Init ==
    /\ \E db \in InitialDbs :
        /\ libraries = db.libraries
        /\ documents = db.documents
        /\ documents_fts = db.documents_fts
    /\ tx = [c \in Conns |-> NoTx]
    /\ pc = [c \in Conns |-> "idle"]
    /\ call = [c \in Conns |-> NoCall]
    /\ last = [c \in Conns |-> NoLast]
    /\ lastUpsert = NoArgs
    /\ calls = 0
    /\ batch = [c \in Conns |-> NoBatch]

Tables == <<libraries, documents, documents_fts>>

\* Two calls of the same operation on the same key: upserts of one
\* (library_id, path), get_or_create_library of one name.
SameKey(k, j) ==
    \/ /\ k.op = "upsert_document" /\ j.op = "upsert_document"
       /\ k.library_id = j.library_id /\ k.path = j.path
    \/ /\ k.op = "get_or_create_library" /\ j.op = "get_or_create_library"
       /\ k.name = j.name

\* Connection c begins the call k at statement at.
Begin(c, k, at) ==
    /\ pc[c] = "idle" /\ calls < MaxCalls
    /\ call' = [d \in Conns |->
            IF d = c
              THEN [k EXCEPT !.conc = \E e \in Conns \ {c} : SameKey(k, call[e])]
              ELSE [call[d] EXCEPT !.again = FALSE,
                                   !.conc = @ \/ SameKey(k, call[d])]]
    /\ pc' = [pc EXCEPT ![c] = at]
    /\ lastUpsert' = NoArgs
    /\ calls' = calls + 1
    /\ UNCHANGED <<Tables, tx, last, batch>>

\* The call of connection c ends: it returns val, or raises err.
\* Inside batch_index the call returns into the loop over the files: the
\* library_id is kept; an exception of upsert_document is swallowed by the
\* handler of the file at hand, whose remaining chunks are skipped; an
\* exception of get_or_create_library is outside any handler and ends the run.
Finish(c, res, err, val) ==
    /\ pc' = [pc EXCEPT ![c] =
            IF ~batch[c].active THEN "idle"
            ELSE IF call[c].op = "get_or_create_library"
                THEN (IF res = "return" THEN "b_file" ELSE "idle")
            ELSE IF res = "return" /\ batch[c].chunks # <<>> THEN "b_chunk"
            ELSE "b_file"]
    /\ batch' = [batch EXCEPT ![c] =
            IF ~batch[c].active THEN @
            ELSE IF call[c].op = "get_or_create_library"
                THEN (IF res = "return" THEN [@ EXCEPT !.library_id = val] ELSE NoBatch)
            ELSE IF res = "return" THEN @
            ELSE [@ EXCEPT !.chunks = <<>>]]
    /\ last' = [last EXCEPT ![c] =
            [op |-> call[c].op, res |-> res, err |-> err, val |-> val,
             rows |-> <<>>, name |-> call[c].name,
             prev |-> call[c].prev, again |-> call[c].again,
             conc |-> call[c].conc]]
    /\ call' = [call EXCEPT ![c] = NoCall]

\* conn.commit() with the tables of the open transaction being db: they
\* become the committed tables and the write lock is released.
CommitAs(c, db) ==
    /\ libraries' = db.libraries
    /\ documents' = db.documents
    /\ documents_fts' = db.documents_fts
    /\ tx' = [tx EXCEPT ![c] = NoTx]

\* conn.commit(): publish the open transaction, if any.
Commit(c) == CommitAs(c, View(c))

\* ---- get_or_create_library(conn, name)
Call_get_or_create_library(c) ==
    \E name \in Names :
        Begin(c, [NoCall EXCEPT !.op = "get_or_create_library", !.name = name],
              "gc_insert")

\* INSERT OR IGNORE INTO libraries (name) VALUES (?)
\* With the write lock held elsewhere past the busy timeout the statement
\* raises "database is locked".
gc_insert(c) ==
    /\ pc[c] = "gc_insert"
    /\ IF Busy(c)
          THEN /\ Finish(c, "raise", "OperationalError", 0)
               /\ UNCHANGED tx
          ELSE /\ tx' = [tx EXCEPT ![c] = InsertOrIgnoreLibrary(View(c), call[c].name)]
               /\ pc' = [pc EXCEPT ![c] = "gc_commit"]
               /\ UNCHANGED <<call, last, batch>>
    /\ UNCHANGED <<Tables, lastUpsert, calls>>

gc_commit(c) ==
    /\ pc[c] = "gc_commit"
    /\ Commit(c)
    /\ pc' = [pc EXCEPT ![c] = "gc_select"]
    /\ UNCHANGED <<call, last, lastUpsert, calls, batch>>

\* row = SELECT id FROM libraries WHERE name = ?; return row["id"]
gc_select(c) ==
    /\ pc[c] = "gc_select"
    /\ LET row == SelectLibrary(View(c), call[c].name)
       IN IF row = NoRow
             THEN Finish(c, "raise", "TypeError", 0)
             ELSE Finish(c, "return", "", row.id)
    /\ UNCHANGED <<Tables, tx, lastUpsert, calls>>

\* ---- upsert_document(conn, library_id, path, content, title)
Call_upsert_document(c) ==
    \E library_id \in LibIds, path \in Paths, content \in Contents, title \in Titles :
        Begin(c, [NoCall EXCEPT !.op = "upsert_document", !.library_id = library_id,
                                !.path = path, !.content = content, !.title = title,
                                !.again = (lastUpsert =
                                    [library_id |-> library_id, path |-> path,
                                     content |-> content, title |-> title])],
              "up_delete")

\* DELETE FROM documents WHERE library_id = ? AND path = ?
up_delete_autocommit(c) ==
    /\ pc[c] = "up_delete"
    /\ LET db == DeleteDocuments(View(c),
                    UpsertDeleteRows(View(c), call[c].library_id, call[c].path))
       IN /\ libraries' = db.libraries
          /\ documents' = db.documents
          /\ documents_fts' = db.documents_fts
          /\ tx' = [tx EXCEPT ![c] = db]
    /\ call' = [call EXCEPT ![c].prev = RowAt(View(c), call[c].library_id, call[c].path)]
    /\ pc' = [pc EXCEPT ![c] = "up_insert"]
    /\ UNCHANGED <<last, lastUpsert, calls, batch>>
up_delete(c) ==
    /\ pc[c] = "up_delete"
    /\ IF Busy(c)
          THEN /\ Finish(c, "raise", "OperationalError", 0)
               /\ UNCHANGED tx
          ELSE /\ tx' = [tx EXCEPT ![c] =
                    DeleteDocuments(View(c),
                        UpsertDeleteRows(View(c), call[c].library_id, call[c].path))]
               /\ call' = [call EXCEPT ![c].prev =
                    RowAt(View(c), call[c].library_id, call[c].path)]
               /\ pc' = [pc EXCEPT ![c] = "up_insert"]
               /\ UNCHANGED <<last, batch>>
    /\ UNCHANGED <<Tables, lastUpsert, calls>>

\* INSERT INTO documents (library_id, path, content, title, url) VALUES (...)
\* A violated constraint undoes the statement and leaves the transaction open.
up_insert(c) ==
    /\ pc[c] = "up_insert"
    /\ IF UniqueViolated(tx[c], call[c].library_id, call[c].path)
          THEN /\ Finish(c, "raise", "IntegrityError", 0)
               /\ UNCHANGED tx
          ELSE /\ tx' = [tx EXCEPT ![c] =
                    InsertDocument(tx[c], call[c].library_id, call[c].path,
                                   call[c].content, call[c].title)]
               /\ pc' = [pc EXCEPT ![c] = "up_update"]
               /\ UNCHANGED <<call, last, batch>>
    /\ UNCHANGED <<Tables, lastUpsert, calls>>

\* UPDATE libraries SET doc_count = ..., indexed_at = ... WHERE id = ?
\* conn.commit()
\* One step: between the two the connection holds the write lock and nothing
\* of the UPDATE is visible elsewhere.
up_update(c) ==
    /\ pc[c] = "up_update"
    /\ CommitAs(c, UpdateDocCount(tx[c], call[c].library_id))
    /\ Finish(c, "return", "", 0)
    /\ lastUpsert' = IF ~batch[c].active /\ \A d \in Conns \ {c} : pc[d] = "idle"
                        THEN Args(call[c]) ELSE NoArgs
    /\ UNCHANGED calls

\* The INSERT or the UPDATE fails in the storage engine (SQLITE_FULL,
\* SQLITE_IOERR, ...): sqlite undoes the statement and either keeps the
\* transaction open or rolls all of it back.  upsert_document has no handler:
\* the exception leaves the call with the connection as sqlite left it.
up_fault(c) ==
    /\ pc[c] \in {"up_insert", "up_update"}
    /\ \E rolled_back \in BOOLEAN :
        tx' = [tx EXCEPT ![c] = IF rolled_back THEN NoTx ELSE tx[c]]
    /\ Finish(c, "raise", "OperationalError", 0)
    /\ UNCHANGED <<Tables, lastUpsert, calls>>

\* ---- delete_library(conn, name)
Call_delete_library(c) ==
    \E name \in Names :
        Begin(c, [NoCall EXCEPT !.op = "delete_library", !.name = name], "dl_select")

\* row = SELECT id FROM libraries WHERE name = ?; if not row: return False
dl_select(c) ==
    /\ pc[c] = "dl_select"
    /\ LET row == SelectLibrary(View(c), call[c].name)
       IN IF row = NoRow
             THEN Finish(c, "return", "", 0)
             ELSE /\ call' = [call EXCEPT ![c].library_id = row.id]
                  /\ pc' = [pc EXCEPT ![c] = "dl_documents"]
                  /\ UNCHANGED <<last, batch>>
    /\ UNCHANGED <<Tables, tx, lastUpsert, calls>>

\* DELETE FROM documents WHERE library_id = ?
dl_documents(c) ==
    /\ pc[c] = "dl_documents"
    /\ IF Busy(c)
          THEN /\ Finish(c, "raise", "OperationalError", 0)
               /\ UNCHANGED tx
          ELSE /\ tx' = [tx EXCEPT ![c] =
                    DeleteDocuments(View(c), Owned(View(c).documents, call[c].library_id))]
               /\ call' = [call EXCEPT ![c].prev =
                    IF Owned(View(c).documents, call[c].library_id) = {} THEN NoRow
                    ELSE CHOOSE d \in Owned(View(c).documents, call[c].library_id) : TRUE]
               /\ pc' = [pc EXCEPT ![c] = "dl_library"]
               /\ UNCHANGED <<last, batch>>
    /\ UNCHANGED <<Tables, lastUpsert, calls>>

\* DELETE FROM libraries WHERE id = ?
\* conn.commit(); return True
dl_library(c) ==
    /\ pc[c] = "dl_library"
    /\ CommitAs(c, DeleteLibrary(tx[c], call[c].library_id))
    /\ Finish(c, "return", "", 1)
    /\ UNCHANGED <<lastUpsert, calls>>

\* ---- conn.close(): an open transaction is rolled back.
close(c) ==
    /\ pc[c] = "idle"
    /\ tx[c].open
    /\ tx' = [tx EXCEPT ![c] = NoTx]
    /\ lastUpsert' = NoArgs
    /\ UNCHANGED <<Tables, pc, call, last, calls, batch>>

Next ==
    \E c \in Conns :
        \/ Call_get_or_create_library(c)
        \/ gc_insert(c)
        \/ gc_commit(c)
        \/ gc_select(c)
        \/ Call_upsert_document(c)
        \/ up_delete(c)
        \/ up_insert(c)
        \/ up_update(c)
        \/ up_fault(c)
        \/ Call_delete_library(c)
        \/ dl_select(c)
        \/ dl_documents(c)
        \/ dl_library(c)
        \/ close(c)

Spec == Init /\ [][Next]_vars

\* ---- batch_index(library, base_url, strip_prefix, chunk=True)
\* conn = get_connection(), then get_or_create_library(conn, library).  The
\* paths read from stdin are drawn one by one as the loop reaches them.
\* Every run opens a connection of its own; the runs follow one another and
\* are all given the connection in Indexers.
Call_batch_index(c) ==
    \E name \in Names :
        /\ c \in Indexers
        /\ pc[c] = "idle"
        /\ ~tx[c].open
        /\ batch' = [batch EXCEPT ![c] = [NoBatch EXCEPT !.active = TRUE]]
        /\ call' = [call EXCEPT ![c] =
                [NoCall EXCEPT !.op = "get_or_create_library", !.name = name]]
        /\ pc' = [pc EXCEPT ![c] = "gc_insert"]
        /\ UNCHANGED <<Tables, tx, last, lastUpsert, calls>>

\* for filepath in files: read the file, skip it when blank, cut it into
\* chunks.  An unreadable file raises inside the handler of the loop, which
\* goes on to the next file.
b_file(c) ==
    /\ pc[c] = "b_file" /\ calls < MaxCalls
    /\ \E filepath \in Files, readable \in BOOLEAN, content \in FileContents :
        LET chunks == IF ~readable \/ Strip(content) = <<>> THEN <<>>
                      ELSE chunk_document(content, filepath, NoUrl)
        IN /\ batch' = [batch EXCEPT ![c].chunks = chunks,
                                      ![c].file =
                                        [path |-> filepath,
                                         content |-> IF readable THEN content ELSE <<>>,
                                         fresh |-> Owned(View(c).documents,
                                                         batch[c].library_id) = {}]]
           /\ pc' = [pc EXCEPT ![c] = IF chunks = <<>> THEN "b_file" ELSE "b_chunk"]
    /\ calls' = calls + 1
    /\ UNCHANGED <<Tables, tx, call, last, lastUpsert>>

\* After the last file: conn.close(), which rolls back what is still open.
b_close(c) ==
    /\ pc[c] = "b_file"
    /\ tx' = [tx EXCEPT ![c] = NoTx]
    /\ pc' = [pc EXCEPT ![c] = "idle"]
    /\ batch' = [batch EXCEPT ![c] = NoBatch]
    /\ last' = [last EXCEPT ![c] = [NoLast EXCEPT !.op = "batch_index", !.res = "return"]]
    /\ UNCHANGED <<Tables, call, lastUpsert, calls>>

\* for doc in chunks: upsert_document(conn, library_id, doc['path'], ...)
b_chunk(c) ==
    /\ pc[c] = "b_chunk"
    /\ LET doc == Head(batch[c].chunks)
       IN call' = [call EXCEPT ![c] =
            [NoCall EXCEPT !.op = "upsert_document",
                           !.library_id = batch[c].library_id,
                           !.path = doc.path, !.content = doc.content,
                           !.title = doc.title]]
    /\ batch' = [batch EXCEPT ![c].chunks = Tail(@)]
    /\ pc' = [pc EXCEPT ![c] = "up_delete"]
    /\ UNCHANGED <<Tables, tx, last, lastUpsert, calls>>

\* Runs of index.py in batch mode next to runs of list.py --delete.
NextBatch ==
    \E c \in Conns :
        \/ Call_batch_index(c)
        \/ gc_insert(c)
        \/ gc_commit(c)
        \/ gc_select(c)
        \/ b_file(c)
        \/ b_close(c)
        \/ b_chunk(c)
        \/ up_delete(c)
        \/ up_insert(c)
        \/ up_update(c)
        \/ up_fault(c)
        \/ Call_delete_library(c)
        \/ dl_select(c)
        \/ dl_documents(c)
        \/ dl_library(c)

SpecBatch == Init /\ [][NextBatch]_vars

\* get_or_create_library alone, from any number of callers.
NextGetOrCreate ==
    \E c \in Conns :
        \/ Call_get_or_create_library(c)
        \/ gc_insert(c)
        \/ gc_commit(c)
        \/ gc_select(c)

SpecGetOrCreate == Init /\ [][NextGetOrCreate]_vars

\* ---- get_document(conn, library_name, identifier)
\* Identifiers are compared with paths and titles, and are pieces like them.
\* Digits are the strings str.isdigit() accepts: "01" is one, and so are
\* Huge, whose number no 64-bit integer holds, and SuperTwo (the character
\* U+00B2, superscript two), which int() does not parse.
MaxReadDocs == 2
Huge == "99999999999999999999"
SuperTwo == "U+00B2"
Digits == {"1", "2", "3", "01", Huge, SuperTwo}
ReadPaths == {<<"1">>, <<"a.md">>, <<Huge>>}
ReadTitles == {<<"1">>, <<"T">>, <<"t">>}
Identifiers == {<<"1">>, <<"2">>, <<"01">>, <<Huge>>, <<SuperTwo>>, <<"a.md">>, <<"t">>, <<"T">>}

\* identifier.isdigit()
IsDigit(identifier) == Len(identifier) = 1 /\ identifier[1] \in Digits

\* int(identifier): raises ValueError where it does not parse.
IntParses(identifier) == identifier[1] # SuperTwo
IntOf(identifier) ==
    CASE identifier[1] \in {"1", "01"} -> 1
      [] identifier[1] = "2" -> 2
      [] identifier[1] = "3" -> 3
      [] OTHER -> 0

\* Binding a Python int to a statement raises OverflowError beyond 64 bits.
FitsInt64(identifier) == identifier[1] # Huge

\* LOWER(): SQLite folds the ASCII letters.
Lower(title) == IF title = <<"T">> THEN <<"t">> ELSE title

\* documents d JOIN libraries l ON d.library_id = l.id WHERE l.name = ?
DocumentsOf(db, library_name) ==
    {d \in db.documents :
        \E l \in db.libraries : l.id = d.library_id /\ l.name = library_name}

ById(db, library_name, identifier) ==
    {d \in DocumentsOf(db, library_name) : d.id = IntOf(identifier)}
ByPath(db, library_name, identifier) ==
    {d \in DocumentsOf(db, library_name) : d.path = identifier}
ByTitle(db, library_name, identifier) ==
    {d \in DocumentsOf(db, library_name) : Lower(d.title) = Lower(identifier)}

Raised(err) == [res |-> "raise", err |-> err, row |-> NoRow]
Returned(row) == [res |-> "return", err |-> "", row |-> row]

\* fetchone() of each SELECT in turn: any one of the rows it selects.
ByPathThenTitle(db, library_name, identifier) ==
    IF ByPath(db, library_name, identifier) # {}
        THEN {Returned(d) : d \in ByPath(db, library_name, identifier)}
    ELSE IF ByTitle(db, library_name, identifier) # {}
        THEN {Returned(d) : d \in ByTitle(db, library_name, identifier)}
    ELSE {Returned(NoRow)}

\* The outcomes of get_document.
GetDocument(db, library_name, identifier) ==
    IF ~IsDigit(identifier) THEN ByPathThenTitle(db, library_name, identifier)
    ELSE IF ~IntParses(identifier) THEN {Raised("ValueError")}
    ELSE IF ~FitsInt64(identifier) THEN {Raised("OverflowError")}
    ELSE IF ById(db, library_name, identifier) # {}
        THEN {Returned(d) : d \in ById(db, library_name, identifier)}
    ELSE ByPathThenTitle(db, library_name, identifier)

\* One step: the SELECTs read the committed tables, which no writer changes
\* in the behaviours of SpecRead.
get_document(c) ==
    \E library_name \in Names, identifier \in Identifiers :
        \E out \in GetDocument(View(c), library_name, identifier) :
            /\ pc[c] = "idle"
            /\ call' = [call EXCEPT ![c] =
                    [NoCall EXCEPT !.op = "get_document", !.name = library_name,
                                   !.path = identifier]]
            /\ last' = [last EXCEPT ![c] =
                    [NoLast EXCEPT !.op = "get_document", !.res = out.res,
                                   !.err = out.err, !.prev = out.row,
                                   !.name = library_name]]
            /\ UNCHANGED <<Tables, tx, pc, lastUpsert, calls, batch>>

\* The stores read.py is run on: libraries acme and beta, and up to
\* MaxReadDocs documents upserted one after the other into the empty store.
RECURSIVE Upserted(_, _)
Upserted(db, rows) ==
    IF rows = <<>> THEN db
    ELSE LET r == Head(rows)
             cleared == DeleteDocuments(db, UpsertDeleteRows(db, r.library_id, r.path))
         IN Upserted(UpdateDocCount(
                        InsertDocument(cleared, r.library_id, r.path, r.content, r.title),
                        r.library_id),
                     Tail(rows))

ReadRows == [library_id : LibIds, path : ReadPaths, title : ReadTitles,
             content : {<<"x">>}]
ReadDbs ==
    {Upserted(InsertOrIgnoreLibrary(InsertOrIgnoreLibrary(EmptyDb, "acme"), "beta"), rows) :
        rows \in UNION {[1..n -> ReadRows] : n \in 0..MaxReadDocs}}

InitRead ==
    /\ \E db \in ReadDbs :
        /\ libraries = db.libraries
        /\ documents = db.documents
        /\ documents_fts = db.documents_fts
    /\ tx = [c \in Conns |-> NoTx]
    /\ pc = [c \in Conns |-> "idle"]
    /\ call = [c \in Conns |-> NoCall]
    /\ last = [c \in Conns |-> NoLast]
    /\ lastUpsert = NoArgs
    /\ calls = 0
    /\ batch = [c \in Conns |-> NoBatch]

NextRead == \E c \in Readers : get_document(c)

SpecRead == InitRead /\ [][NextRead]_vars

\* ------------------------------------------------------ chunk_document
\* chunk_document alone, on every document of at most MaxLines lines.
MaxLines == 4
ChunkLines == {"", "x", "---", "title: F", "# T", "## A", "## B", Fill, Pad}
ChunkContents == UNION {[1..n -> ChunkLines] : n \in 0..MaxLines}
BaseUrls == {NoUrl, <<"u">>}
Chunkers == {1}

InitChunk ==
    /\ libraries = EmptyDb.libraries
    /\ documents = EmptyDb.documents
    /\ documents_fts = EmptyDb.documents_fts
    /\ tx = [c \in Conns |-> NoTx]
    /\ pc = [c \in Conns |-> IF c \in Chunkers THEN "chunk_document" ELSE "idle"]
    /\ \E content \in ChunkContents, path \in Files, base_url \in BaseUrls :
        call = [c \in Conns |->
                    IF c \in Chunkers
                        THEN [NoCall EXCEPT !.op = "chunk_document", !.content = content,
                                            !.path = path, !.url = base_url]
                        ELSE NoCall]
    /\ last = [c \in Conns |-> NoLast]
    /\ lastUpsert = NoArgs
    /\ calls = 0
    /\ batch = [c \in Conns |-> NoBatch]

\* chunks = chunk_document(content, filepath, url)
Call_chunk_document(c) ==
    /\ pc[c] = "chunk_document"
    /\ pc' = [pc EXCEPT ![c] = "idle"]
    /\ batch' = [batch EXCEPT ![c].chunks =
                    chunk_document(call[c].content, call[c].path, call[c].url)]
    /\ last' = [last EXCEPT ![c] =
                    [NoLast EXCEPT !.op = "chunk_document", !.res = "return"]]
    /\ UNCHANGED <<libraries, documents, documents_fts, tx, call, lastUpsert, calls>>

NextChunk == \E c \in Chunkers : Call_chunk_document(c)

SpecChunk == InitChunk /\ [][NextChunk]_vars

\* ------------------------------------------------------------------ claims
RowsAt(docs, library_id, path) ==
    {d \in docs : d.library_id = library_id /\ d.path = path}

EntriesOf(fts, rowid) ==
    BagCardinality([e \in {x \in BagToSet(fts) : x.rowid = rowid} |-> CopiesIn(e, fts)])

\* The step is connection c leaving statement at.
Steps(c, at) == pc[c] = at /\ pc'[c] # at

\* The step is the storage engine failing connection c's statement.
Faulted(c) == pc'[c] \in {"idle", "b_file"} /\ last'[c].err = "OperationalError"

\* The step is the UPDATE and commit of connection c's upsert.
UpsertCommits(c) == Steps(c, "up_update") /\ ~Faulted(c)

\* C1: in the committed tables, which is all a reader on another connection
\* sees, also while an upsert or a delete_library is in progress, the ids of
\* the documents are the rowids of the index, and every document has exactly
\* one index entry, its own.
C1_IndexSync ==
    /\ {e.rowid : e \in BagToSet(documents_fts)} = {d.id : d \in documents}
    /\ \A d \in documents :
        /\ EntriesOf(documents_fts, d.id) = 1
        /\ CopiesIn(FtsEntry(d), documents_fts) = 1

\* A reader looks while an upsert has deleted the stored row of its path and
\* not yet committed.
C1_Witness ==
    \E c \in Conns :
        /\ pc[c] = "up_insert" /\ call[c].prev \in documents
        /\ call[c].prev \notin tx[c].documents

\* C2: a later operation of a connection (get_or_create_library, an upsert of
\* another path, delete_library of another library) whose previous call was
\* an upsert_document that raised does not publish anything of that upsert:
\* the row stored at its (library_id, path) before it is still stored after.
C2_LaterCommit(c) ==
    \/ Steps(c, "gc_commit")
    \/ /\ UpsertCommits(c)
       /\ ~(call[c].library_id = last[c].prev.library_id /\ call[c].path = last[c].prev.path)
    \/ /\ Steps(c, "dl_library")
       /\ call[c].library_id # last[c].prev.library_id

C2_FailedUpsertRolledBack ==
    [][\A c \in Conns :
        (/\ last[c].op = "upsert_document" /\ last[c].res = "raise"
         /\ last[c].prev \in documents
         /\ C2_LaterCommit(c))
        => last[c].prev \in documents']_vars

\* C3: an upsert_document whose content is empty, or whose library_id is the
\* id of no library, ends by raising and leaves the committed tables as they
\* were.
C3_BadInput(c) ==
    \/ call[c].content = Empty
    \/ ~\E l \in View(c).libraries : l.id = call[c].library_id

C3_UpsertRejectsBadInput ==
    [][\A c \in Conns :
        (/\ call[c].op = "upsert_document"
         /\ pc[c] # "idle" /\ pc'[c] = "idle"
         /\ C3_BadInput(c))
        => (last'[c].res = "raise" /\ UNCHANGED Tables)]_vars

\* C4: no two documents share (library_id, path), in the committed tables and
\* in every open transaction; and the INSERT of an upsert whose path was
\* stored before succeeds and leaves one row at the key, holding the new
\* content (unless the storage engine fails it).
UniqueKey(docs) ==
    \A d, e \in docs : (d.library_id = e.library_id /\ d.path = e.path) => d = e

C4_Unique == UniqueKey(documents) /\ \A c \in Conns : UniqueKey(View(c).documents)

C4_OneRowPerPath ==
    [][/\ C4_Unique
       /\ C4_Unique'
       /\ \A c \in Conns :
            (Steps(c, "up_insert") /\ ~Faulted(c))
            => /\ pc'[c] = "up_update"
               /\ \E d \in tx'[c].documents :
                    /\ RowsAt(tx'[c].documents, call[c].library_id, call[c].path) = {d}
                    /\ d.content = call[c].content]_vars

\* An upsert has replaced, in its transaction, the row stored at its path by
\* one of another content.
C4_Witness ==
    \E c \in Conns :
        /\ pc[c] = "up_update" /\ call[c].prev # NoRow
        /\ \E d \in tx[c].documents :
            /\ d.library_id = call[c].library_id /\ d.path = call[c].path
            /\ d.content # call[c].prev.content

\* C5: when an upsert_document repeats the one that returned just before it
\* (same library_id, path, content and title, no other call in between), its
\* commit leaves one row and one index entry at the path, as many documents
\* as before, and every library's row, doc_count included, as it was.
C5_Idempotent ==
    [][\A c \in Conns :
        (UpsertCommits(c) /\ call[c].again)
        => /\ \E d \in documents' :
                /\ RowsAt(documents', call[c].library_id, call[c].path) = {d}
                /\ d.content = call[c].content
                /\ EntriesOf(documents_fts', d.id) = 1
                /\ CopiesIn(FtsEntry(d), documents_fts') = 1
           /\ Cardinality(documents') = Cardinality(documents)
           /\ BagCardinality(documents_fts') = BagCardinality(documents_fts)
           /\ libraries' = libraries]_vars

\* The repeated upsert has returned, in a library that exists.
C5_Witness ==
    \E c \in Conns :
        /\ last[c].op = "upsert_document" /\ last[c].res = "return" /\ last[c].again
        /\ pc[c] = "idle"
        /\ \E l \in libraries : l.id = lastUpsert.library_id /\ l.doc_count >= 1

\* C6: every library's doc_count is the number of documents it owns.
C6_DocCount ==
    \A l \in libraries : l.doc_count = Cardinality(Owned(documents, l.id))

\* C7: delete_library returns False only when its lookup finds no library of
\* the name, and then changes nothing; when the lookup finds one, nothing
\* changes in the committed tables until the one commit, after which the row
\* looked up and every document with its id are gone, every index entry is
\* that of a document of another library (and no library has the name, if
\* the row looked up still was the one of that name), and the call returns
\* True.
C7_DeleteLibrary ==
    [][\A c \in Conns :
        /\ Steps(c, "dl_select") =>
            /\ UNCHANGED <<Tables, tx>>
            /\ IF \E l \in View(c).libraries : l.name = call[c].name
                  THEN /\ pc'[c] = "dl_documents"
                       /\ \E l \in View(c).libraries :
                            l.name = call[c].name /\ l.id = call'[c].library_id
                  ELSE /\ pc'[c] = "idle"
                       /\ last'[c].res = "return" /\ last'[c].val = 0
        /\ Steps(c, "dl_documents") => UNCHANGED Tables
        /\ Steps(c, "dl_library") =>
            /\ last'[c].res = "return" /\ last'[c].val = 1
            /\ ~\E l \in libraries' : l.id = call[c].library_id
            /\ Owned(documents', call[c].library_id) = {}
            /\ \A e \in BagToSet(documents_fts') :
                    \E d \in documents' :
                        d.id = e.rowid /\ d.library_id # call[c].library_id
            /\ (\E l \in tx[c].libraries :
                    l.name = call[c].name /\ l.id = call[c].library_id)
                => ~\E l \in libraries' : l.name = call[c].name]_vars

\* delete_library has returned True for a library that owned a document, and
\* documents of another library are still stored.
C7_Witness ==
    \E c \in Conns :
        /\ last[c].op = "delete_library" /\ last[c].val = 1
        /\ last[c].prev # NoRow /\ last[c].prev \notin documents
        /\ documents # {}
        /\ ~\E l \in libraries : l.name = last[c].name

\* C8: at most one connection has a write transaction open; the DELETE and
\* the INSERT of an upsert change nothing in the committed tables; and the
\* commit of an upsert leaves one row at the path, holding that upsert's
\* content, with one index entry, and the library's doc_count equal to the
\* number of its documents.
C8_AtomicUpsert ==
    [][/\ \A c, d \in Conns : (tx[c].open /\ tx[d].open) => c = d
       /\ \A c \in Conns :
            /\ (Steps(c, "up_delete") \/ Steps(c, "up_insert")) => UNCHANGED Tables
            /\ UpsertCommits(c) =>
                /\ \E d \in documents' :
                    /\ RowsAt(documents', call[c].library_id, call[c].path) = {d}
                    /\ d.content = call[c].content
                    /\ EntriesOf(documents_fts', d.id) = 1
                    /\ CopiesIn(FtsEntry(d), documents_fts') = 1
                /\ \A l \in libraries' :
                    l.id = call[c].library_id
                    => l.doc_count = Cardinality(Owned(documents', l.id))]_vars

\* Two upserts of one (library_id, path) were in progress at the same time on
\* two connections and both have returned.
C8_Witness ==
    \E c, d \in Conns :
        /\ c # d /\ pc[c] = "idle" /\ pc[d] = "idle"
        /\ last[c].op = "upsert_document" /\ last[c].res = "return" /\ last[c].conc
        /\ last[d].op = "upsert_document" /\ last[d].res = "return" /\ last[d].conc
        /\ \E l \in libraries : Owned(documents, l.id) # {}

\* C9 (callers of get_or_create_library only): there is one library row per
\* name and per id; a call that returns, returns the id of the row of its
\* name; two calls returned the same id exactly if they had the same name.
C9_Returned(c) == last[c].op = "get_or_create_library" /\ last[c].res = "return"

C9_GetOrCreate ==
    /\ \A l, m \in libraries : (l.name = m.name \/ l.id = m.id) => l = m
    /\ \A c \in Conns :
        C9_Returned(c) => \E l \in libraries : l.name = last[c].name /\ l.id = last[c].val
    /\ \A c, d \in Conns :
        (C9_Returned(c) /\ C9_Returned(d))
        => ((last[c].name = last[d].name) <=> (last[c].val = last[d].val))

\* Two interleaved calls with one name have both returned, with one id.
C9_Witness ==
    \E c, d \in Conns :
        /\ c # d /\ C9_Returned(c) /\ C9_Returned(d)
        /\ last[c].conc /\ last[d].conc /\ last[c].val = last[d].val

\* C10: in a run of batch_index a failure while one file is processed does
\* not abort the run, and the failed file leaves nothing half-written.  When
\* an upsert_document of the run raises, the run goes on with the loop over
\* the files; and when an upsert_document of a later file commits, the row
\* that was stored under the key of the failed upsert before it began is
\* still stored.
C10_Raises(c) ==
    /\ call[c].op = "upsert_document"
    /\ pc[c] # "b_file" /\ pc'[c] = "b_file"
    /\ last'[c].res = "raise"

C10_BatchGoesOn ==
    [][\A c \in Conns :
        (batch[c].active /\ C10_Raises(c)) => batch'[c].active]_vars

C10_BatchFailureIsolated ==
    [][\A c \in Conns :
        /\ (batch[c].active /\ C10_Raises(c)) => batch'[c].active
        /\ (/\ batch[c].active
            /\ UpsertCommits(c)
            /\ last[c].op = "upsert_document" /\ last[c].res = "raise"
            /\ last[c].prev \in documents
            /\ ~(/\ call[c].library_id = last[c].prev.library_id
                 /\ call[c].path = last[c].prev.path))
           => last[c].prev \in documents']_vars

\* C11: get_document with an identifier of digits returns the document of
\* the named library whose id is that number, whenever there is one, whatever
\* the paths and titles of the other documents; and when the identifier is
\* not of digits, or no document of the library has that id, and a document
\* of the library has the identifier as its path, it returns that document
\* (and not one matched by its title).
C11_Precedence ==
    \A c \in Conns :
        call[c].op = "get_document" =>
            LET lib == call[c].name
                identifier == call[c].path
            IN /\ (IsDigit(identifier) /\ ById(Committed, lib, identifier) # {})
                    => /\ last[c].res = "return"
                       /\ last[c].prev \in ById(Committed, lib, identifier)
               /\ (/\ ~IsDigit(identifier) \/ ById(Committed, lib, identifier) = {}
                   /\ ByPath(Committed, lib, identifier) # {})
                    => /\ last[c].res = "return"
                       /\ last[c].prev \in ByPath(Committed, lib, identifier)

\* C12: get_document with an identifier of digits that is the id of no
\* document of the named library does not raise: it returns the document of
\* the library with that path, else one of the library with that title
\* (letter case apart), else None; and what it returns is a document of the
\* named library.
C12_FallThrough ==
    \A c \in Conns :
        (/\ call[c].op = "get_document"
         /\ IsDigit(call[c].path)
         /\ ById(Committed, call[c].name, call[c].path) = {})
        => LET lib == call[c].name
               identifier == call[c].path
           IN /\ last[c].res = "return"
              /\ last[c].prev # NoRow => last[c].prev \in DocumentsOf(Committed, lib)
              /\ IF ByPath(Committed, lib, identifier) # {}
                    THEN last[c].prev \in ByPath(Committed, lib, identifier)
                 ELSE IF ByTitle(Committed, lib, identifier) # {}
                    THEN last[c].prev \in ByTitle(Committed, lib, identifier)
                 ELSE last[c].prev = NoRow

\* The run of connection c has stored every chunk of the file at hand, the
\* first one it wrote to its library, and no other connection has made a call.
Ingested(c) ==
    /\ batch[c].active /\ pc[c] = "b_file"
    /\ batch[c].file.path # <<>> /\ batch[c].file.fresh
    /\ last[c].op = "upsert_document" /\ last[c].res = "return"
    /\ \A d \in Conns \ {c} : pc[d] = "idle" /\ last[d] = NoLast

\* The level-2 sections of a content: its lines '## ...'.
Sections(content) == Cardinality({i \in 1..Len(content) : content[i] \in H2Lines})

\* C13: the chunks chunk_document returns to batch_index have pairwise
\* distinct paths, and once they are stored the library holds one document
\* per chunk.
C13_DistinctChunkPaths ==
    \A c \in Conns :
        /\ \A i, j \in 1..Len(batch[c].chunks) :
                i # j => batch[c].chunks[i].path # batch[c].chunks[j].path
        /\ Ingested(c) =>
                Cardinality(Owned(documents, batch[c].library_id))
                    = Len(chunk_document(batch[c].file.content, batch[c].file.path, NoUrl))

\* C14: after batch_index has ingested a file of CHUNK_THRESHOLD characters
\* or more with k level-2 sections into a library that owned nothing, the
\* library owns k + 1 documents.
C14_SectionsPlusOne ==
    \A c \in Conns :
        (Ingested(c) /\ StrLen(batch[c].file.content) >= CHUNK_THRESHOLD)
        => Cardinality(Owned(documents, batch[c].library_id))
                = Sections(batch[c].file.content) + 1

\* ------------------------------------------------------------- search
\* build_fts_query and the full-text engine work on characters: a query, an
\* expression and a word are sequences of strings of one character.
MaxQueryLen == 3
Quote == "\""
Backslash == "\\"
QueryChars == {"a", "b", " ", Quote, "(", ")", "*"}
Queries == UNION {[1..n -> QueryChars] : n \in 0..MaxQueryLen}

\* The white space str.split() splits on.
Spaces == {" "}

\* The length of the longest prefix of s made of characters of set.
RECURSIVE Run(_, _)
Run(s, set) ==
    IF s # <<>> /\ Head(s) \in set THEN 1 + Run(Tail(s), set) ELSE 0

Drop(s, n) == SubSeq(s, n + 1, Len(s))
Take(s, n) == SubSeq(s, 1, n)

\* query.split()
RECURSIVE Split(_)
Split(s) ==
    IF s = <<>> THEN <<>>
    ELSE IF Head(s) \in Spaces THEN Split(Tail(s))
    ELSE LET n == Run(s, QueryChars \ Spaces)
         IN <<Take(s, n)>> \o Split(Drop(s, n))

\* re.sub(r'(["\^\$\(\)\[\]\{\}\|\+])', r'\\\1', term)
Specials == {Quote, "^", "$", "(", ")", "[", "]", "{", "}", "|", "+"}
RECURSIVE Escape(_)
Escape(term) ==
    IF term = <<>> THEN <<>>
    ELSE (IF Head(term) \in Specials THEN <<Backslash, Head(term)>> ELSE <<Head(term)>>)
         \o Escape(Tail(term))

\* One term of the expression: bare if it ends with '*', else "term"*.
FtsTerm(term) ==
    LET escaped == Escape(term)
    IN IF escaped[Len(escaped)] = "*"
        THEN escaped
        ELSE <<Quote>> \o escaped \o <<Quote, "*">>

\* ' OR '.join(fts_terms)
RECURSIVE JoinOr(_)
JoinOr(fts_terms) ==
    IF Len(fts_terms) = 1 THEN Head(fts_terms)
    ELSE Head(fts_terms) \o <<" ", "O", "R", " ">> \o JoinOr(Tail(fts_terms))

\* build_fts_query(query)
build_fts_query(query) ==
    LET terms == Split(query)
        fts_terms == [i \in 1..Len(terms) |-> FtsTerm(terms[i])]
    IN IF terms = <<>> THEN <<Quote, Quote>>
       ELSE <<"(">> \o JoinOr(fts_terms) \o <<")">>

\* The engine reads the expression token by token (fts5ExprGetToken of
\* SQLite's FTS5, which conn.execute runs on the MATCH parameter).  A token is
\* [t |-> its kind, s |-> its text]; the two errors of the reader are kinds
\* too, and end the reading.
BareChars == {"a", "b", "O", "R"}
Token(kind, text) == [t |-> kind, s |-> text]
UnterminatedString == Token("unterminated string", <<>>)
SyntaxError == Token("syntax error", <<>>)

\* The index of the quote that closes the string open before i, or 0; ""
\* inside a string is a quote of the string.
RECURSIVE StringEnd(_, _)
StringEnd(z, i) ==
    IF i > Len(z) THEN 0
    ELSE IF z[i] # Quote THEN StringEnd(z, i + 1)
    ELSE IF i < Len(z) /\ z[i + 1] = Quote THEN StringEnd(z, i + 2)
    ELSE i

RECURSIVE Dequote(_)
Dequote(text) ==
    IF text = <<>> THEN <<>>
    ELSE IF Head(text) = Quote THEN <<Quote>> \o Dequote(Drop(text, 2))
    ELSE <<Head(text)>> \o Dequote(Tail(text))

RECURSIVE Lex(_)
Lex(z) ==
    IF z = <<>> THEN <<>>
    ELSE CASE Head(z) \in Spaces -> Lex(Tail(z))
           [] Head(z) = "(" -> <<Token("LP", <<>>)>> \o Lex(Tail(z))
           [] Head(z) = ")" -> <<Token("RP", <<>>)>> \o Lex(Tail(z))
           [] Head(z) = "*" -> <<Token("STAR", <<>>)>> \o Lex(Tail(z))
           [] Head(z) = Quote ->
                LET end == StringEnd(z, 2)
                IN IF end = 0 THEN <<UnterminatedString>>
                   ELSE <<Token("STRING", Dequote(SubSeq(z, 2, end - 1)))>>
                        \o Lex(Drop(z, end))
           [] Head(z) \in BareChars ->
                LET n == Run(z, BareChars)
                IN <<Token(IF Take(z, n) = <<"O", "R">> THEN "OR" ELSE "STRING",
                           Take(z, n))>>
                   \o Lex(Drop(z, n))
           [] OTHER -> <<SyntaxError>>

\* The grammar of the engine (fts5parse.y) over the tokens build_fts_query
\* can make:  expr ::= expr OR expr | LP expr RP | exprlist;
\* exprlist ::= phrase | exprlist phrase;  phrase ::= STRING | STRING STAR.
RECURSIVE IsExprList(_)
IsExprList(toks) ==
    /\ toks # <<>>
    /\ Head(toks).t = "STRING"
    /\ LET rest == IF Len(toks) > 1 /\ toks[2].t = "STAR"
                        THEN Drop(toks, 2) ELSE Tail(toks)
       IN rest = <<>> \/ IsExprList(rest)

RECURSIVE IsExpr(_)
IsExpr(toks) ==
    \/ IsExprList(toks)
    \/ /\ Len(toks) > 2
       /\ Head(toks).t = "LP" /\ toks[Len(toks)].t = "RP"
       /\ IsExpr(SubSeq(toks, 2, Len(toks) - 1))
    \/ \E i \in 2..(Len(toks) - 1) :
        /\ toks[i].t = "OR"
        /\ IsExpr(Take(toks, i - 1))
        /\ IsExpr(Drop(toks, i))

\* MATCH fts_query fails, with sqlite3.OperationalError ("unterminated
\* string" or "fts5: syntax error near ..."): the engine cannot read it.
ParseError(fts_query) == ~IsExpr(Lex(fts_query))

\* The characters of the pieces and lines the documents searched are made of.
Chars(piece) ==
    CASE piece = "a.md" -> <<"a", ".", "m", "d">>
      [] piece = "b" -> <<"b">>
      [] piece = "b.md" -> <<"b", ".", "m", "d">>
      [] piece = "T" -> <<"T">>
      [] piece = "ab" -> <<"a", "b">>
      [] piece = "(b)" -> <<"(", "b", ")">>

\* A path or a title: its pieces one after the other.
RECURSIVE PieceChars(_)
PieceChars(pieces) ==
    IF pieces = <<>> THEN <<>> ELSE Chars(Head(pieces)) \o PieceChars(Tail(pieces))

\* A content: its lines with a newline between them.
RECURSIVE LineChars(_)
LineChars(lines) ==
    IF lines = <<>> THEN <<>>
    ELSE IF Len(lines) = 1 THEN Chars(Head(lines))
    ELSE Chars(Head(lines)) \o <<"\n">> \o LineChars(Tail(lines))

\* The tokenizer of the index (unicode61, the default): a word is a run of
\* letters and digits, folded to lower case; every other character separates.
WordChars == {"a", "b", "d", "m", "t", "T", "O", "R"}
Fold(ch) == CASE ch = "T" -> "t" [] ch = "O" -> "o" [] ch = "R" -> "r" [] OTHER -> ch
RECURSIVE Tokenize(_)
Tokenize(z) ==
    IF z = <<>> THEN <<>>
    ELSE IF Head(z) \notin WordChars THEN Tokenize(Tail(z))
    ELSE LET n == Run(z, WordChars)
         IN <<[i \in 1..n |-> Fold(z[i])]>> \o Tokenize(Drop(z, n))

IsPrefix(p, w) == Len(p) <= Len(w) /\ Take(w, Len(p)) = p

\* The positions of a column where the phrase stands: its words in a row,
\* the last one as a prefix if a star follows the phrase.
PhraseAt(column, phrase, star) ==
    {p \in 1..(Len(column) - Len(phrase) + 1) :
        /\ phrase # <<>>
        /\ \A k \in 1..Len(phrase) :
            IF k = Len(phrase) /\ star
                THEN IsPrefix(phrase[k], column[p + k - 1])
                ELSE phrase[k] = column[p + k - 1]}

\* The columns of an entry of the index, in words.
Columns(e) ==
    [title |-> Tokenize(PieceChars(e.title)),
     content |-> Tokenize(LineChars(e.content)),
     path |-> Tokenize(PieceChars(e.path))]

\* The hits of a phrase in the entry, weighted as in
\* bm25(documents_fts, 10.0, 1.0, 5.0): title, content, path.
Hits(e, phrase, star) ==
    10 * Cardinality(PhraseAt(Columns(e).title, phrase, star))
    + 1 * Cardinality(PhraseAt(Columns(e).content, phrase, star))
    + 5 * Cardinality(PhraseAt(Columns(e).path, phrase, star))

\* exprlist: the entry has every phrase of the list.
RECURSIVE ListMatches(_, _)
ListMatches(toks, e) ==
    LET star == Len(toks) > 1 /\ toks[2].t = "STAR"
        rest == IF star THEN Drop(toks, 2) ELSE Tail(toks)
    IN /\ Hits(e, Tokenize(Head(toks).s), star) > 0
       /\ rest = <<>> \/ ListMatches(rest, e)

\* documents_fts MATCH the expression the tokens make.
RECURSIVE Matches(_, _)
Matches(toks, e) ==
    IF IsExprList(toks) THEN ListMatches(toks, e)
    ELSE IF /\ Head(toks).t = "LP" /\ toks[Len(toks)].t = "RP"
            /\ IsExpr(SubSeq(toks, 2, Len(toks) - 1))
        THEN Matches(SubSeq(toks, 2, Len(toks) - 1), e)
    ELSE \E i \in 2..(Len(toks) - 1) :
            /\ toks[i].t = "OR"
            /\ IsExpr(Take(toks, i - 1)) /\ IsExpr(Drop(toks, i))
            /\ Matches(Take(toks, i - 1), e) \/ Matches(Drop(toks, i), e)

\* bm25 is a real number, lower for a better match; the model's rank is a
\* cost that falls with every hit of a phrase, by the weight of its column.
RECURSIVE Rank(_, _)
Rank(toks, e) ==
    IF toks = <<>> THEN 0
    ELSE IF Head(toks).t # "STRING" THEN Rank(Tail(toks), e)
    ELSE LET star == Len(toks) > 1 /\ toks[2].t = "STAR"
         IN Rank(Tail(toks), e) - Hits(e, Tokenize(Head(toks).s), star)

\* library_name=None, and every other value `if library_name:` takes as false.
NoName == ""

\* The rows of the SELECT before ORDER BY and LIMIT.
Selected(db, toks, library_name) ==
    {[id |-> d.id, path |-> d.path, title |-> d.title, library |-> l.name,
      rank |-> Rank(toks, FtsEntry(d))] :
        <<d, l>> \in {<<d, l>> \in db.documents \X db.libraries :
            /\ BagIn(FtsEntry(d), db.documents_fts)
            /\ d.library_id = l.id
            /\ Matches(toks, FtsEntry(d))
            /\ library_name # NoName => l.name = library_name}}

\* ORDER BY rank: the rows in any order that has no rank before a lower one.
OrderBy(rows) ==
    {r \in [1..Cardinality(rows) -> rows] :
        /\ \A i, j \in DOMAIN r : i < j => r[i] # r[j] /\ r[i].rank <= r[j].rank}

\* LIMIT ?: a negative limit is no limit.
Limit(r, limit) ==
    IF limit < 0 \/ limit >= Len(r) THEN r ELSE Take(r, limit)

\* The outcomes of search_documents.
SearchDocuments(db, query, library_name, limit) ==
    LET fts_query == build_fts_query(query)
    IN IF ParseError(fts_query) THEN {[res |-> "raise", err |-> "OperationalError", rows |-> <<>>]}
       ELSE {[res |-> "return", err |-> "", rows |-> Limit(r, limit)] :
                r \in OrderBy(Selected(db, Lex(fts_query), library_name))}

\* One step, as for get_document: a run of search.py opens a connection,
\* calls search_documents once on the committed tables and prints the rows.
Limits == {-1, 0, 1}
Searchers == {1}
search_documents(c) ==
    /\ pc[c] = "search_documents"
    /\ \E query \in Queries, library_name \in Names \cup {NoName}, limit \in Limits :
        \E out \in SearchDocuments(View(c), query, library_name, limit) :
            /\ pc' = [pc EXCEPT ![c] = "idle"]
            /\ call' = [call EXCEPT ![c] =
                    [NoCall EXCEPT !.op = "search_documents", !.query = query,
                                   !.name = library_name, !.limit = limit]]
            /\ last' = [last EXCEPT ![c] =
                    [NoLast EXCEPT !.op = "search_documents", !.res = out.res,
                                   !.err = out.err, !.rows = out.rows,
                                   !.name = library_name]]
            /\ UNCHANGED <<Tables, tx, lastUpsert, calls, batch>>

\* The stores search.py is run on: libraries acme and beta, and up to
\* MaxSearchDocs documents upserted one after the other into the empty store.
MaxSearchDocs == 2
SearchRows == [library_id : LibIds, path : {<<"a.md">>, <<"b">>}, title : {<<"T">>},
               content : {<<"ab">>, <<"(b)">>}]
SearchDbs ==
    {Upserted(InsertOrIgnoreLibrary(InsertOrIgnoreLibrary(EmptyDb, "acme"), "beta"), rows) :
        rows \in UNION {[1..n -> SearchRows] : n \in 0..MaxSearchDocs}}

InitSearch ==
    /\ \E db \in SearchDbs :
        /\ libraries = db.libraries
        /\ documents = db.documents
        /\ documents_fts = db.documents_fts
    /\ tx = [c \in Conns |-> NoTx]
    /\ pc = [c \in Conns |-> IF c \in Searchers THEN "search_documents" ELSE "idle"]
    /\ call = [c \in Conns |-> NoCall]
    /\ last = [c \in Conns |-> NoLast]
    /\ lastUpsert = NoArgs
    /\ calls = 0
    /\ batch = [c \in Conns |-> NoBatch]

NextSearch == \E c \in Searchers : search_documents(c)

SpecSearch == InitSearch /\ [][NextSearch]_vars

\* The call of chunk_document made by c has returned.
Chunked(c) == last[c].op = "chunk_document" /\ last[c].res = "return"

\* A level-2 heading of the content has a line of text right below it.
HasSection(content) ==
    \E i \in 1..(Len(content) - 1) :
        /\ content[i] \in H2Lines
        /\ ~IsBlank(content[i + 1])
        /\ content[i + 1] \notin H2Lines

\* No level-2 heading of the content has text below it before the next one.
NoSectionBody(content) ==
    \A i \in 1..Len(content) :
        content[i] \in H2Lines =>
            \A j \in (i + 1)..Len(content) :
                (\A k \in (i + 1)..(j - 1) : content[k] \notin H2Lines)
                    => (IsBlank(content[j]) \/ content[j] \in H2Lines)

\* The lines of a text that are not blank.
NotBlank(line) == ~IsBlank(line)
Text(lines) == SelectSeq(lines, NotBlank)

\* C15: chunk_document returns a non-empty sequence for every input; for a
\* document at or above the threshold that has no level-2 heading, or whose
\* sections all have no body, the result is a single chunk with the original
\* path that holds the whole document: every line of it that is not blank.
C15_WholeDocumentFallback ==
    \A c \in Conns :
        Chunked(c) =>
            /\ batch[c].chunks # <<>>
            /\ (/\ StrLen(call[c].content) >= CHUNK_THRESHOLD
                /\ NoSectionBody(call[c].content))
                => /\ Len(batch[c].chunks) = 1
                   /\ batch[c].chunks[1].path = call[c].path
                   /\ Text(batch[c].chunks[1].content) = Text(call[c].content)

Searched(c) == last[c].op = "search_documents"

\* C17: whatever the query, quotes, parentheses and stars in its terms
\* included, the engine can read the expression build_fts_query makes of it,
\* and search_documents does not fail with a parse error.
C17_ValidExpression ==
    \A c \in Conns :
        Searched(c) =>
            /\ ~ParseError(build_fts_query(call[c].query))
            /\ last[c].res = "return"

\* The words of a document: those of its title, content and path.
Words(d) ==
    {Columns(d).title[i] : i \in DOMAIN Columns(d).title}
    \cup {Columns(d).content[i] : i \in DOMAIN Columns(d).content}
    \cup {Columns(d).path[i] : i \in DOMAIN Columns(d).path}

\* A term as a prefix: without the star that may end it.
Stem(term) == IF term[Len(term)] = "*" THEN Take(term, Len(term) - 1) ELSE term

\* Some term of the query is a prefix of some word of the document.
AnyTermPrefix(query, d) ==
    \E i \in DOMAIN Split(query) :
        \E w \in Words(d) : IsPrefix(Stem(Split(query)[i]), w)

\* C18: OR semantics. Without a library filter and without a limit the
\* documents returned are those of which some term of the query is a prefix of
\* a word; a query without terms or without a match returns no row and raises
\* nothing.
C18_AnyTerm ==
    \A c \in Conns :
        (Searched(c) /\ call[c].name = NoName /\ call[c].limit < 0) =>
            /\ last[c].res = "return"
            /\ {last[c].rows[i].id : i \in DOMAIN last[c].rows}
                = {d.id : d \in {d \in documents : AnyTermPrefix(call[c].query, d)}}

\* C19: for every limit there are at most limit rows (none for a limit below
\* 1), in non-decreasing order of rank, no row left out has a lower rank
\* than a row returned, and with a library filter every row is of that
\* library.
C19_LimitAndOrder ==
    \A c \in Conns :
        (Searched(c) /\ last[c].res = "return") =>
            LET rows == last[c].rows
                all == Selected(Committed, Lex(build_fts_query(call[c].query)),
                                call[c].name)
            IN /\ Len(rows) <= Max({call[c].limit, 0})
               /\ \A i, j \in DOMAIN rows : i < j => rows[i].rank <= rows[j].rank
               /\ \A i \in DOMAIN rows : rows[i] \in all
               /\ \A r \in all :
                    (\A i \in DOMAIN rows : rows[i] # r)
                        => \A i \in DOMAIN rows : rows[i].rank <= r.rank
               /\ call[c].name # NoName
                    => \A i \in DOMAIN rows : rows[i].library = call[c].name

\* Every document's library_id is the id of a row of libraries.
NoOrphan == \A d \in documents : \E l \in libraries : l.id = d.library_id

\* A library row with an id no row had before the step owns, after the step,
\* no document that was stored before it.
NoAdoption ==
    \A l \in libraries' :
        (\A k \in libraries : k.id # l.id)
            => \A d \in documents' : d.library_id = l.id => d \notin documents

\* C20: in every committed state every document's library_id refers to a row
\* of libraries, also when delete_library runs between the steps of a batch
\* that got its library_id before; and no document of a deleted library comes
\* to be owned by a library created later under the same id.
C20_NoOrphans == []NoOrphan /\ [][NoAdoption]_vars

\* batch_index on c has stored every chunk of the file at hand, which was
\* readable and not blank, and no other connection has made a call.
Reingested(c) ==
    /\ batch[c].active /\ pc[c] = "b_file"
    /\ Strip(batch[c].file.content) # <<>>
    /\ last[c].op = "upsert_document" /\ last[c].res = "return"
    /\ \A d \in Conns \ {c} : pc[d] = "idle" /\ last[d] = NoLast

\* The path is the file path, or the file path, '##' and a section title.
DerivedPath(path, filepath) ==
    \/ path = filepath
    \/ /\ Len(path) = Len(filepath) + 2
       /\ SubSeq(path, 1, Len(filepath)) = filepath
       /\ path[Len(filepath) + 1] = "##"

\* The chunks of the latest content of the file c has at hand.
LatestChunks(c) == chunk_document(batch[c].file.content, batch[c].file.path, NoUrl)

\* C21: after batch_index has ingested a file, the documents of the library
\* at the file path or at '<file path>##<section title>' are the chunks of the
\* latest content, each chunk path is stored, and the index holds for these
\* documents nothing but their entries: nothing of an earlier version is left.
C21_NoStaleChunks ==
    \A c \in Conns :
        Reingested(c) =>
            LET chunks == LatestChunks(c)
                stored == {d \in Owned(documents, batch[c].library_id) :
                                DerivedPath(d.path, batch[c].file.path)}
            IN /\ \A d \in stored :
                    \E i \in DOMAIN chunks :
                        /\ chunks[i].path = d.path
                        /\ chunks[i].content = d.content
                        /\ chunks[i].title = d.title
               /\ \A i \in DOMAIN chunks : \E d \in stored : d.path = chunks[i].path
               /\ \A e \in BagToSet(documents_fts) :
                    (\E d \in stored : d.id = e.rowid)
                        => \E d \in stored : e = FtsEntry(d)

\* The libraries with an id outside ids: their rows, their documents and the
\* index entries of these documents, each with its number of copies.
OtherLibraries(libs, docs, fts, ids) ==
    LET rows == {l \in libs : l.id \notin ids}
        owned == {d \in docs : \E l \in rows : l.id = d.library_id}
    IN [libraries |-> rows,
        documents |-> owned,
        entries |-> {<<e, CopiesIn(e, fts)>> :
                        e \in {x \in BagToSet(fts) : \E d \in owned : d.id = x.rowid}}]

\* The ids of the library connection c's call is applied to: the library_id
\* upsert_document is given, the library of the name delete_library is given.
AppliedTo(c) ==
    IF call[c].op = "upsert_document" THEN {call[c].library_id}
    ELSE {l.id : l \in {k \in libraries \cup libraries' : k.name = call[c].name}}

\* C22: no step of an upsert_document or of a delete_library changes, in the
\* committed tables, the row of another library, its documents or their index
\* entries.
C22_OtherLibrariesUnchanged ==
    [][\A c \in Conns :
        (/\ call[c].op \in {"upsert_document", "delete_library"}
         /\ pc'[c] # pc[c])
        => OtherLibraries(libraries', documents', documents_fts', AppliedTo(c))
            = OtherLibraries(libraries, documents, documents_fts, AppliedTo(c))]_vars

====
